---- MODULE Spec2Model ----
(***************************************************************************)
(* The per-account bundle state machine of revm                            *)
(* (crates/revm/src/db/states/bundle_account.rs): BundleAccount, its       *)
(* constructors, touch_empty, selfdestruct, newly_created, change and the  *)
(* fold update_and_create_revert.                                          *)
(*                                                                         *)
(* Option<T> is a sequence of length at most one: None is <<>> and Some(x) *)
(* is <<x>>.  A HashMap is a function on the set of its keys.  AccountInfo *)
(* is a number; AccountInfo::default() (the empty account) is 0.           *)
(***************************************************************************)
EXTENDS Integers, Sequences, FiniteSets, TLC

VARIABLES bundle, pc, last, seen, log, origin, mirror

vars == <<bundle, pc, last, seen, log, origin, mirror>>

\* ---------------------------------------------------------------- bounds
MaxInfo == 2
MaxKey == 2
MaxVal == 1
MaxLog == 2

Infos == 0..MaxInfo
Keys == 1..MaxKey
Values == 0..MaxVal

\* ------------------------------------------------------------ data types
None == <<>>

Some(x) == <<x>>

IsSome(o) == o # <<>>

IsNone(o) == o = <<>>

Unwrap(o) == o[1]

AccountStatus ==
    {"LoadedNotExisting", "Loaded", "LoadedEmptyEIP161", "New", "Changed", "NewChanged",
     "Destroyed", "DestroyedNew", "DestroyedNewChanged", "DestroyedAgain"}

AccountInfoDefault == 0

EmptyMap == [k \in {} |-> 0]

PlainAccount(info, storage) == [info |-> info, storage |-> storage]

PlainAccountDefault == PlainAccount(AccountInfoDefault, EmptyMap)

BundleAccount(account, status) == [account |-> account, status |-> status]

RevertToSlotSome(v) == [some |-> TRUE, value |-> v]

RevertToSlotDestroyed == [some |-> FALSE, value |-> 0]

AccountRevert(account, storage, original_status) ==
    [account |-> account, storage |-> storage, original_status |-> original_status]

TransitionAccount(info, status, previous_info, previous_status, storage) ==
    [info |-> info, status |-> status, previous_info |-> previous_info,
     previous_status |-> previous_status, storage |-> storage]

\* HashMap::extend: the entries of m are inserted into s, overwriting.
Extend(s, m) ==
    [k \in (DOMAIN s) \cup (DOMAIN m) |-> IF k \in DOMAIN m THEN m[k] ELSE s[k]]

\* Option<PlainAccount>::unwrap_or_default
UnwrapOrDefaultAccount(o) == IF IsSome(o) THEN Unwrap(o) ELSE PlainAccountDefault

\* Option<AccountInfo>::unwrap_or_default
UnwrapOrDefaultInfo(o) == IF IsSome(o) THEN Unwrap(o) ELSE AccountInfoDefault

\* ---------------------------------------------------------- constructors
new_loaded(info, storage) == BundleAccount(Some(PlainAccount(info, storage)), "Loaded")

new_loaded_empty_eip161(storage) ==
    BundleAccount(Some(PlainAccount(AccountInfoDefault, storage)), "LoadedEmptyEIP161")

new_loaded_not_existing == BundleAccount(None, "LoadedNotExisting")

new_newly_created(info, storage) == BundleAccount(Some(PlainAccount(info, storage)), "New")

new_destroyed == BundleAccount(None, "Destroyed")

new_changed(info, storage) == BundleAccount(Some(PlainAccount(info, storage)), "Changed")

\* ------------------------------------------------------------- accessors
storage_slot(b, slot) ==
    IF IsSome(b.account) /\ slot \in DOMAIN Unwrap(b.account).storage
    THEN Some(Unwrap(b.account).storage[slot])
    ELSE None

account_info(b) == IF IsSome(b.account) THEN Some(Unwrap(b.account).info) ELSE None

\* ----------------------------------------------------- outcome of a call
\* What a call leaves behind: the fields of self, the returned value and
\* whether the call ended in unreachable!().
Outcome(account, status, ret) ==
    [account |-> account, status |-> status, ret |-> ret, panic |-> FALSE]

Unreachable(account, status) ==
    [account |-> account, status |-> status, ret |-> None, panic |-> TRUE]

\* touch_empty with the New arm going to LoadedNotExisting instead of Destroyed
touch_empty_NewToNotExisting(b) ==
    CASE b.status = "DestroyedNew" -> Outcome(None, "DestroyedAgain", None)
      [] b.status = "New" -> Outcome(None, "LoadedNotExisting", None)
      [] b.status = "LoadedEmptyEIP161" -> Outcome(None, "Destroyed", None)
      [] OTHER -> Unreachable(b.account, b.status)

\* ------------------------------------------------------------ touch_empty
touch_empty(b) ==
    CASE b.status = "DestroyedNew" -> Outcome(None, "DestroyedAgain", None)
      [] b.status = "New" -> Outcome(None, "Destroyed", None)
      [] b.status = "LoadedEmptyEIP161" -> Outcome(None, "Destroyed", None)
      [] OTHER -> Unreachable(b.account, b.status)

\* selfdestruct without the arms that mark a repeated destruction
selfdestruct_NeverAgain(b) ==
    LET previous_info == IF IsSome(b.account) THEN Some(Unwrap(b.account).info) ELSE None
    IN  Outcome(None, "Destroyed",
                TransitionAccount(None, "Destroyed", previous_info, b.status, EmptyMap))

\* ----------------------------------------------------------- selfdestruct
selfdestruct(b) ==
    LET previous_info == IF IsSome(b.account) THEN Some(Unwrap(b.account).info) ELSE None
        previous_status == b.status
        status == CASE b.status \in {"DestroyedNew", "DestroyedNewChanged"} -> "DestroyedAgain"
                    [] b.status = "Destroyed" -> "DestroyedAgain"
                    [] OTHER -> "Destroyed"
    IN  Outcome(None, status,
                TransitionAccount(None, status, previous_info, previous_status, EmptyMap))

\* the present values of a Storage, as a PlainStorage
PresentValues(storage) == [k \in DOMAIN storage |-> storage[k].present_value]

\* newly_created forgetting that the account was destroyed: a destroyed
\* account is recreated as New, like one that never existed
newly_created_ForgetsDestroyed(b, new_info, new_storage) ==
    LET previous_status == b.status
        previous_info == b.account
        storage == Extend(IF IsSome(previous_info) THEN Unwrap(previous_info).storage
                          ELSE EmptyMap,
                          PresentValues(new_storage))
    IN  IF b.status \in {"DestroyedAgain", "Destroyed", "LoadedNotExisting",
                         "LoadedEmptyEIP161", "Loaded"}
        THEN Outcome(Some(PlainAccount(new_info, storage)), "New",
                     TransitionAccount(Some(new_info), "New",
                         IF IsSome(previous_info) THEN Some(Unwrap(previous_info).info)
                         ELSE None,
                         previous_status, new_storage))
        ELSE Unreachable(None, b.status)

\* ---------------------------------------------------------- newly_created
newly_created(b, new_info, new_storage) ==
    LET previous_status == b.status
        previous_info == b.account
        storage == Extend(IF IsSome(previous_info) THEN Unwrap(previous_info).storage
                          ELSE EmptyMap,
                          PresentValues(new_storage))
    IN  IF b.status \in {"DestroyedAgain", "Destroyed", "LoadedNotExisting",
                         "LoadedEmptyEIP161", "Loaded"}
        THEN LET status == CASE b.status \in {"DestroyedAgain", "Destroyed"} -> "DestroyedNew"
                             [] b.status = "LoadedNotExisting" -> "New"
                             [] OTHER -> "New"
             IN  Outcome(Some(PlainAccount(new_info, storage)), status,
                         TransitionAccount(Some(new_info), status,
                             IF IsSome(previous_info) THEN Some(Unwrap(previous_info).info)
                             ELSE None,
                             previous_status, new_storage))
        ELSE \* self.account.take() came first
             Unreachable(None, b.status)

\* ----------------------------------------------------------------- change
change(b, new, storage) ==
    LET previous_status == b.status
        previous_info == IF IsSome(b.account) THEN Some(Unwrap(b.account).info) ELSE None
        this_storage == Extend(IF IsSome(b.account) THEN Unwrap(b.account).storage
                               ELSE EmptyMap,
                               PresentValues(storage))
        changed_account == PlainAccount(new, this_storage)
    IN  IF b.status \in {"LoadedNotExisting", "Destroyed", "DestroyedAgain"}
        THEN \* self.account.take() came first
             Unreachable(None, b.status)
        ELSE LET status == CASE b.status = "Loaded" -> "Changed"
                             [] b.status = "Changed" -> "Changed"
                             [] b.status = "New" -> "NewChanged"
                             [] b.status = "NewChanged" -> "NewChanged"
                             [] b.status = "DestroyedNew" -> "DestroyedNewChanged"
                             [] b.status = "DestroyedNewChanged" -> "DestroyedNewChanged"
                             [] b.status = "LoadedEmptyEIP161" -> "Changed"
             IN  Outcome(Some(changed_account), status,
                         TransitionAccount(Some(new), status, previous_info,
                                           previous_status, storage))

\* ----------------------------------------------- update_and_create_revert
\* the derived quantities computed at the head of the fold
\* new_present_storage with the filter of previous_storage_from_update applied
new_present_storage_ChangedOnly(updated_storage) ==
    LET changed == {k \in DOMAIN updated_storage :
                        updated_storage[k].original_value # updated_storage[k].present_value}
    IN  [k \in changed |-> updated_storage[k].present_value]

new_present_storage(updated_storage) ==
    [k \in DOMAIN updated_storage |-> updated_storage[k].present_value]

previous_storage_from_update(updated_storage) ==
    LET changed == {k \in DOMAIN updated_storage :
                        updated_storage[k].original_value # updated_storage[k].present_value}
    IN  [k \in changed |-> RevertToSlotSome(updated_storage[k].original_value)]

destroyed_storage(updated_storage) ==
    [k \in DOMAIN updated_storage |-> RevertToSlotDestroyed]

make_it_explode(original_status, this) ==
    LET previous_account == this.info
        previous_storage == [k \in DOMAIN this.storage |-> RevertToSlotSome(this.storage[k])]
    IN  Some(AccountRevert(Some(previous_account), previous_storage, original_status))

make_it_expload_with_aftereffect(original_status, this, destroyed) ==
    LET previous_account == this.info
        drained == [k \in DOMAIN this.storage |-> RevertToSlotSome(this.storage[k])]
        \* entry(key).or_insert(Destroyed): only the keys not yet present
        previous_storage ==
            [k \in (DOMAIN drained) \cup (DOMAIN destroyed) |->
                IF k \in DOMAIN drained THEN drained[k] ELSE RevertToSlotDestroyed]
    IN  Some(AccountRevert(Some(previous_account), previous_storage, original_status))

\* `this` is the BundleAccount as the closure finds it when it is called.
update_part_of_destroyed(this, updated_storage) ==
    IF this.status \in {"NewChanged", "New", "Changed", "LoadedEmptyEIP161"}
    THEN make_it_expload_with_aftereffect(this.status,
                                          UnwrapOrDefaultAccount(this.account),
                                          destroyed_storage(updated_storage))
    ELSE None

\* self after `let mut this = self.account.take().unwrap_or_default()`:
\* the account has been moved out of self.
Taken(b) == BundleAccount(None, b.status)

FoldChanged(b, t) ==
    LET this == UnwrapOrDefaultAccount(b.account)
        updated_info == UnwrapOrDefaultInfo(t.info)
    IN  CASE b.status = "Changed" ->
                \* this.info is overwritten before the revert is built, and
                \* `this` is never put back into self.account
                Outcome(None, "Changed",
                        Some(AccountRevert(Some(updated_info),
                                           previous_storage_from_update(t.storage),
                                           "Changed")))
          [] b.status = "Loaded" ->
                Outcome(Some(PlainAccount(updated_info,
                                          Extend(this.storage, new_present_storage(t.storage)))),
                        "Changed",
                        Some(AccountRevert(Some(this.info),
                                           previous_storage_from_update(t.storage),
                                           "Loaded")))
          [] OTHER -> Unreachable(None, b.status)

\* the New arm of the fold with the revert of the LoadedEmptyEIP161 case also
\* used for LoadedNotExisting: the revert restores an empty account instead
\* of deleting it
FoldNew_NotExistingRevertsToEmpty(b, t) ==
    LET this == UnwrapOrDefaultAccount(b.account)
        updated_info == UnwrapOrDefaultInfo(t.info)
    IN  CASE b.status \in {"LoadedEmptyEIP161", "LoadedNotExisting"} ->
                Outcome(Some(PlainAccount(updated_info,
                                          Extend(this.storage, new_present_storage(t.storage)))),
                        "New",
                        Some(AccountRevert(Some(AccountInfoDefault),
                                           previous_storage_from_update(t.storage),
                                           b.status)))
          [] OTHER -> Unreachable(None, b.status)

FoldNew(b, t) ==
    LET this == UnwrapOrDefaultAccount(b.account)
        updated_info == UnwrapOrDefaultInfo(t.info)
    IN  CASE b.status = "LoadedEmptyEIP161" ->
                Outcome(Some(PlainAccount(updated_info,
                                          Extend(this.storage, new_present_storage(t.storage)))),
                        "New",
                        Some(AccountRevert(Some(AccountInfoDefault),
                                           previous_storage_from_update(t.storage),
                                           "LoadedEmptyEIP161")))
          [] b.status = "LoadedNotExisting" ->
                Outcome(Some(PlainAccount(updated_info, new_present_storage(t.storage))),
                        "New",
                        Some(AccountRevert(None,
                                           previous_storage_from_update(t.storage),
                                           "LoadedNotExisting")))
          [] OTHER -> Unreachable(None, b.status)

\* the NewChanged arm of the fold without the collapse of the loaded cases:
\* every accepted status ends in NewChanged
FoldNewChanged_NoCollapse(b, t) ==
    LET this == UnwrapOrDefaultAccount(b.account)
        updated_info == UnwrapOrDefaultInfo(t.info)
    IN  CASE b.status = "LoadedEmptyEIP161" ->
                Outcome(Some(PlainAccount(updated_info,
                                          Extend(this.storage, new_present_storage(t.storage)))),
                        "NewChanged",
                        Some(AccountRevert(Some(AccountInfoDefault),
                                           previous_storage_from_update(t.storage),
                                           "LoadedEmptyEIP161")))
          [] b.status = "LoadedNotExisting" ->
                Outcome(Some(PlainAccount(updated_info, new_present_storage(t.storage))),
                        "NewChanged",
                        Some(AccountRevert(None,
                                           previous_storage_from_update(t.storage),
                                           "LoadedNotExisting")))
          [] b.status \in {"New", "NewChanged"} ->
                Outcome(Some(PlainAccount(updated_info,
                                          Extend(this.storage, new_present_storage(t.storage)))),
                        "NewChanged",
                        Some(AccountRevert(Some(this.info),
                                           previous_storage_from_update(t.storage),
                                           b.status)))
          [] OTHER -> Unreachable(None, b.status)

\* the NewChanged arm of the fold restoring no info when the folded info
\* equals the held one: the revert's account part is then left empty
FoldNewChanged_NoInfoOnEqual(b, t) ==
    LET this == UnwrapOrDefaultAccount(b.account)
        updated_info == UnwrapOrDefaultInfo(t.info)
        previous == IF this.info = updated_info THEN None ELSE Some(this.info)
    IN  CASE b.status = "LoadedEmptyEIP161" ->
                Outcome(Some(PlainAccount(updated_info,
                                          Extend(this.storage, new_present_storage(t.storage)))),
                        "New",
                        Some(AccountRevert(IF updated_info = AccountInfoDefault
                                           THEN None ELSE Some(AccountInfoDefault),
                                           previous_storage_from_update(t.storage),
                                           "LoadedEmptyEIP161")))
          [] b.status = "LoadedNotExisting" ->
                Outcome(Some(PlainAccount(updated_info, new_present_storage(t.storage))),
                        "New",
                        Some(AccountRevert(None,
                                           previous_storage_from_update(t.storage),
                                           "LoadedNotExisting")))
          [] b.status \in {"New", "NewChanged"} ->
                Outcome(Some(PlainAccount(updated_info,
                                          Extend(this.storage, new_present_storage(t.storage)))),
                        "NewChanged",
                        Some(AccountRevert(previous,
                                           previous_storage_from_update(t.storage),
                                           b.status)))
          [] OTHER -> Unreachable(None, b.status)

FoldNewChanged(b, t) ==
    LET this == UnwrapOrDefaultAccount(b.account)
        updated_info == UnwrapOrDefaultInfo(t.info)
    IN  CASE b.status = "LoadedEmptyEIP161" ->
                Outcome(Some(PlainAccount(updated_info,
                                          Extend(this.storage, new_present_storage(t.storage)))),
                        "New",
                        Some(AccountRevert(Some(AccountInfoDefault),
                                           previous_storage_from_update(t.storage),
                                           "LoadedEmptyEIP161")))
          [] b.status = "LoadedNotExisting" ->
                Outcome(Some(PlainAccount(updated_info, new_present_storage(t.storage))),
                        "New",
                        Some(AccountRevert(None,
                                           previous_storage_from_update(t.storage),
                                           "LoadedNotExisting")))
          [] b.status = "New" ->
                Outcome(Some(PlainAccount(updated_info,
                                          Extend(this.storage, new_present_storage(t.storage)))),
                        "NewChanged",
                        Some(AccountRevert(Some(this.info),
                                           previous_storage_from_update(t.storage),
                                           "New")))
          [] b.status = "NewChanged" ->
                Outcome(Some(PlainAccount(updated_info,
                                          Extend(this.storage, new_present_storage(t.storage)))),
                        "NewChanged",
                        Some(AccountRevert(Some(this.info),
                                           previous_storage_from_update(t.storage),
                                           "NewChanged")))
          [] OTHER -> Unreachable(None, b.status)

\* t.status = Loaded | LoadedNotExisting | LoadedEmptyEIP161: `return None`
\* after the account has been taken out of self.
FoldLoaded(b, t) == Outcome(None, b.status, None)

\* the Destroyed arm of the fold without its Loaded case
FoldDestroyed_NoLoaded(b, t) ==
    LET this == UnwrapOrDefaultAccount(b.account)
    IN  CASE b.status \in {"NewChanged", "New", "Changed", "LoadedEmptyEIP161"} ->
                Outcome(None, "Destroyed", make_it_explode(b.status, this))
          [] b.status = "LoadedNotExisting" -> Outcome(None, b.status, None)
          [] OTHER -> Unreachable(None, b.status)

FoldDestroyed(b, t) ==
    LET this == UnwrapOrDefaultAccount(b.account)
    IN  CASE b.status \in {"NewChanged", "New", "Changed", "LoadedEmptyEIP161"} ->
                Outcome(None, "Destroyed", make_it_explode(b.status, this))
          [] b.status = "Loaded" ->
                Outcome(None, "Destroyed", make_it_explode("LoadedEmptyEIP161", this))
          [] b.status = "LoadedNotExisting" -> Outcome(None, b.status, None)
          [] OTHER -> Unreachable(None, b.status)

\* the DestroyedNew arm of the fold without the collapse to New: a
\* non-existing account is handled like a destroyed one
FoldDestroyedNew_NoCollapse(b, t) ==
    LET updated_info == UnwrapOrDefaultInfo(t.info)
        revert_state == update_part_of_destroyed(Taken(b), t.storage)
        rebuilt == Some(PlainAccount(updated_info, new_present_storage(t.storage)))
    IN  IF IsSome(revert_state)
        THEN Outcome(rebuilt, "DestroyedNew", revert_state)
        ELSE CASE b.status \in {"Destroyed", "LoadedNotExisting"} ->
                    Outcome(rebuilt, "DestroyedNew",
                            Some(AccountRevert(None,
                                               previous_storage_from_update(t.storage),
                                               b.status)))
               [] b.status = "DestroyedAgain" ->
                    Outcome(rebuilt, "DestroyedNew",
                            make_it_expload_with_aftereffect("DestroyedAgain",
                                                             PlainAccountDefault,
                                                             destroyed_storage(t.storage)))
               [] b.status = "DestroyedNew" -> Outcome(None, b.status, None)
               [] OTHER -> Unreachable(None, b.status)

FoldDestroyedNew(b, t) ==
    LET updated_info == UnwrapOrDefaultInfo(t.info)
        revert_state == update_part_of_destroyed(Taken(b), t.storage)
        rebuilt == Some(PlainAccount(updated_info, new_present_storage(t.storage)))
    IN  IF IsSome(revert_state)
        THEN Outcome(rebuilt, "DestroyedNew", revert_state)
        ELSE CASE b.status = "Destroyed" ->
                    Outcome(rebuilt, "DestroyedNew",
                            Some(AccountRevert(None,
                                               previous_storage_from_update(t.storage),
                                               "Destroyed")))
               [] b.status = "LoadedNotExisting" ->
                    Outcome(rebuilt, "New",
                            Some(AccountRevert(None,
                                               previous_storage_from_update(t.storage),
                                               "LoadedNotExisting")))
               [] b.status = "DestroyedAgain" ->
                    Outcome(rebuilt, "DestroyedNew",
                            make_it_expload_with_aftereffect("DestroyedAgain",
                                                             PlainAccountDefault,
                                                             destroyed_storage(t.storage)))
               [] b.status = "DestroyedNew" -> Outcome(None, b.status, None)
               [] OTHER -> Unreachable(None, b.status)

\* the DestroyedNewChanged arm of the fold ending in DestroyedNewChanged (not
\* DestroyedNew) outside the pre-destroy path as well
FoldDestroyedNewChanged_StaysChanged(b, t) ==
    LET this == UnwrapOrDefaultAccount(b.account)
        updated_info == UnwrapOrDefaultInfo(t.info)
        revert_state == update_part_of_destroyed(Taken(b), t.storage)
        rebuilt == Some(PlainAccount(updated_info, new_present_storage(t.storage)))
    IN  IF IsSome(revert_state)
        THEN Outcome(rebuilt, "DestroyedNewChanged", revert_state)
        ELSE CASE b.status = "Destroyed" ->
                    Outcome(rebuilt, "DestroyedNewChanged",
                            Some(AccountRevert(None,
                                               previous_storage_from_update(t.storage),
                                               "DestroyedNewChanged")))
               [] b.status \in {"DestroyedNew", "DestroyedNewChanged"} ->
                    Outcome(rebuilt, "DestroyedNewChanged",
                            Some(AccountRevert(Some(this.info),
                                               previous_storage_from_update(t.storage),
                                               "DestroyedNewChanged")))
               [] b.status = "LoadedNotExisting" ->
                    Outcome(rebuilt, "New",
                            Some(AccountRevert(None,
                                               previous_storage_from_update(t.storage),
                                               "DestroyedNewChanged")))
               [] OTHER -> Unreachable(None, b.status)

\* the DestroyedNewChanged arm of the fold consulting the pre-destroy helper
\* with an empty overlay, as the DestroyedAgain arm does
FoldDestroyedNewChanged_NoOverlay(b, t) ==
    LET this == UnwrapOrDefaultAccount(b.account)
        updated_info == UnwrapOrDefaultInfo(t.info)
        revert_state == update_part_of_destroyed(Taken(b), EmptyMap)
        rebuilt == Some(PlainAccount(updated_info, new_present_storage(t.storage)))
    IN  IF IsSome(revert_state)
        THEN Outcome(rebuilt, "DestroyedNewChanged", revert_state)
        ELSE CASE b.status = "Destroyed" ->
                    Outcome(rebuilt, "DestroyedNew",
                            Some(AccountRevert(None,
                                               previous_storage_from_update(t.storage),
                                               "DestroyedNewChanged")))
               [] b.status \in {"DestroyedNew", "DestroyedNewChanged"} ->
                    Outcome(rebuilt, "DestroyedNew",
                            Some(AccountRevert(Some(this.info),
                                               previous_storage_from_update(t.storage),
                                               "DestroyedNewChanged")))
               [] b.status = "LoadedNotExisting" ->
                    Outcome(rebuilt, "New",
                            Some(AccountRevert(None,
                                               previous_storage_from_update(t.storage),
                                               "DestroyedNewChanged")))
               [] OTHER -> Unreachable(None, b.status)

FoldDestroyedNewChanged(b, t) ==
    LET this == UnwrapOrDefaultAccount(b.account)
        updated_info == UnwrapOrDefaultInfo(t.info)
        revert_state == update_part_of_destroyed(Taken(b), t.storage)
        rebuilt == Some(PlainAccount(updated_info, new_present_storage(t.storage)))
    IN  IF IsSome(revert_state)
        THEN Outcome(rebuilt, "DestroyedNewChanged", revert_state)
        ELSE CASE b.status = "Destroyed" ->
                    Outcome(rebuilt, "DestroyedNew",
                            Some(AccountRevert(None,
                                               previous_storage_from_update(t.storage),
                                               "DestroyedNewChanged")))
               [] b.status \in {"DestroyedNew", "DestroyedNewChanged"} ->
                    Outcome(rebuilt, "DestroyedNew",
                            Some(AccountRevert(Some(this.info),
                                               previous_storage_from_update(t.storage),
                                               "DestroyedNewChanged")))
               [] b.status = "LoadedNotExisting" ->
                    Outcome(rebuilt, "New",
                            Some(AccountRevert(None,
                                               previous_storage_from_update(t.storage),
                                               "DestroyedNewChanged")))
               [] OTHER -> Unreachable(None, b.status)

\* the DestroyedAgain arm of the fold treating a recreated account
\* (DestroyedNew, DestroyedNewChanged) like an already destroyed one: a no-op
\* that puts the account back
FoldDestroyedAgain_RecreatedNoop(b, t) ==
    LET revert_state == update_part_of_destroyed(Taken(b), EmptyMap)
    IN  IF IsSome(revert_state)
        THEN Outcome(None, "DestroyedAgain", revert_state)
        ELSE CASE b.status \in {"Destroyed", "DestroyedAgain", "LoadedNotExisting"} ->
                    Outcome(None, b.status, None)
               [] b.status \in {"DestroyedNew", "DestroyedNewChanged"} ->
                    Outcome(b.account, b.status, None)
               [] OTHER -> Unreachable(None, b.status)

FoldDestroyedAgain(b, t) ==
    LET this == UnwrapOrDefaultAccount(b.account)
        revert_state == update_part_of_destroyed(Taken(b), EmptyMap)
    IN  IF IsSome(revert_state)
        THEN Outcome(None, "DestroyedAgain", revert_state)
        ELSE CASE b.status = "Destroyed" -> Outcome(None, b.status, None)
               [] b.status \in {"DestroyedNew", "DestroyedNewChanged"} ->
                    \* neither self.status nor self.account is assigned here
                    Outcome(None, b.status,
                            Some(AccountRevert(Some(this.info),
                                               previous_storage_from_update(t.storage),
                                               b.status)))
               [] b.status = "DestroyedAgain" -> Outcome(None, b.status, None)
               [] b.status = "LoadedNotExisting" -> Outcome(None, b.status, None)
               [] OTHER -> Unreachable(None, b.status)

update_and_create_revert(b, t) ==
    CASE t.status = "Changed" -> FoldChanged(b, t)
      [] t.status = "New" -> FoldNew(b, t)
      [] t.status = "NewChanged" -> FoldNewChanged(b, t)
      [] t.status \in {"Loaded", "LoadedNotExisting", "LoadedEmptyEIP161"} -> FoldLoaded(b, t)
      [] t.status = "Destroyed" -> FoldDestroyed(b, t)
      [] t.status = "DestroyedNew" -> FoldDestroyedNew(b, t)
      [] t.status = "DestroyedNewChanged" -> FoldDestroyedNewChanged(b, t)
      [] t.status = "DestroyedAgain" -> FoldDestroyedAgain(b, t)

\* ---------------------------------------------------------------- inputs
PlainStorages == UNION {[D -> Values] : D \in SUBSET Keys}

Storages ==
    UNION {[D -> [original_value : Values, present_value : Values]] : D \in SUBSET Keys}

OptionInfos == {None} \cup {Some(i) : i \in Infos}

\* The fold reads info, status and storage of a TransitionAccount only;
\* previous_info and previous_status are never consulted.
Transitions == [info : OptionInfos, status : AccountStatus, storage : Storages]

\* original_value is the value the slot had when the transition started: for
\* a slot the bundle holds, that is the value the bundle holds.
ConsistentWith(b, t) ==
    \A k \in DOMAIN t.storage :
        IsSome(storage_slot(b, k)) => t.storage[k].original_value = Unwrap(storage_slot(b, k))

StorageKeys(b) == IF IsSome(b.account) THEN DOMAIN Unwrap(b.account).storage ELSE {}

NoCall == [op |-> "none"]

Call(op, pre, arg, out) ==
    [op |-> op, pre |-> pre, arg |-> arg, ret |-> out.ret, panic |-> out.panic]

Constructed ==
    {new_loaded(i, s) : i \in Infos, s \in PlainStorages}
    \cup {new_loaded_empty_eip161(s) : s \in PlainStorages}
    \cup {new_loaded_not_existing}
    \cup {new_newly_created(i, s) : i \in Infos, s \in PlainStorages}
    \cup {new_destroyed}
    \cup {new_changed(i, s) : i \in Infos, s \in PlainStorages}

\* ----------------------------------------------------------- the machine
Init ==
    /\ bundle \in Constructed
    /\ pc = "idle"
    /\ last = NoCall
    /\ seen = StorageKeys(bundle)
    /\ log = <<>>
    /\ origin = None
    /\ mirror = None

\* One call of an operation on self: the whole body runs in one step.
Finish(op, arg, out, keys) ==
    /\ bundle' = BundleAccount(out.account, out.status)
    /\ last' = Call(op, bundle, arg, out)
    /\ pc' = IF out.panic THEN "panicked" ELSE "returned"
    /\ seen' = IF out.panic THEN seen ELSE seen \cup keys
    /\ UNCHANGED <<log, origin, mirror>>

Fold ==
    /\ pc = "idle"
    /\ \E t \in Transitions :
          /\ ConsistentWith(bundle, t)
          /\ Finish("update_and_create_revert", t, update_and_create_revert(bundle, t),
                    DOMAIN t.storage)

TouchEmpty ==
    /\ pc = "idle"
    /\ Finish("touch_empty", None, touch_empty(bundle), {})

Selfdestruct ==
    /\ pc = "idle"
    /\ Finish("selfdestruct", None, selfdestruct(bundle), {})

NewlyCreated ==
    /\ pc = "idle"
    /\ \E new_info \in Infos, new_storage \in Storages :
          Finish("newly_created", [info |-> new_info, storage |-> new_storage],
                 newly_created(bundle, new_info, new_storage), DOMAIN new_storage)

Change ==
    /\ pc = "idle"
    /\ \E new \in Infos, storage \in Storages :
          Finish("change", [info |-> new, storage |-> storage],
                 change(bundle, new, storage), DOMAIN storage)

\* The caller takes the returned value and goes on to its next call.
Resume ==
    /\ pc = "returned"
    /\ pc' = "idle"
    /\ last' = NoCall
    /\ UNCHANGED <<bundle, seen, log, origin, mirror>>

Next == Fold \/ TouchEmpty \/ Selfdestruct \/ NewlyCreated \/ Change \/ Resume

Spec == Init /\ [][Next]_vars

\* --------------------------------------------------- the reverts log
\* The caller of the fold appends every returned revert to a log.  Each entry
\* also remembers the account as it was before the fold that produced it, and
\* origin remembers the account as it was constructed.
LoadedOrNew ==
    {new_loaded(i, s) : i \in Infos, s \in PlainStorages}
    \cup {new_loaded_empty_eip161(s) : s \in PlainStorages}
    \cup {new_loaded_not_existing}
    \cup {new_newly_created(i, s) : i \in Infos, s \in PlainStorages}

\* The transitions the log specification folds: they touch the first slot only,
\* and carry no info exactly when they destroy the account.
LogTransitions ==
    {t \in Transitions :
        /\ DOMAIN t.storage \subseteq {1}
        /\ IsNone(t.info) <=> t.status \in {"Destroyed", "DestroyedAgain"}}

InitLog ==
    /\ bundle \in LoadedOrNew
    /\ pc = "idle"
    /\ last = NoCall
    /\ seen = StorageKeys(bundle)
    /\ log = <<>>
    /\ origin = Some(bundle)
    /\ mirror = None

FoldAndLog ==
    /\ pc = "idle"
    /\ Len(log) < MaxLog
    /\ \E t \in LogTransitions :
          /\ ConsistentWith(bundle, t)
          /\ LET out == update_and_create_revert(bundle, t)
             IN  /\ bundle' = BundleAccount(out.account, out.status)
                 /\ pc' = IF out.panic THEN "panicked" ELSE "idle"
                 /\ log' = IF IsSome(out.ret)
                           THEN Append(log, [revert |-> Unwrap(out.ret), before |-> bundle])
                           ELSE log
                 /\ seen' = IF out.panic THEN seen ELSE seen \cup DOMAIN t.storage
                 /\ UNCHANGED <<last, origin, mirror>>

NextLog == FoldAndLog

SpecLog == InitLog /\ [][NextLog]_vars

\* ------------------------------------------- helpers feeding the fold
\* Two accounts start equal.  mirror is the account the helper operations
\* act on; bundle absorbs, in the same order, every TransitionAccount a helper
\* returns.  A helper is called only where it does not end in unreachable!().
InitPair ==
    /\ bundle \in Constructed
    /\ pc = "idle"
    /\ last = NoCall
    /\ seen = StorageKeys(bundle)
    /\ log = <<>>
    /\ origin = None
    /\ mirror = Some(bundle)

Absorb(emitted) ==
    /\ ~emitted.panic
    /\ mirror' = Some(BundleAccount(emitted.account, emitted.status))
    /\ LET t == emitted.ret
           out == update_and_create_revert(bundle, t)
       IN  /\ bundle' = BundleAccount(out.account, out.status)
           /\ last' = Call("update_and_create_revert", bundle, t, out)
           /\ pc' = IF out.panic THEN "panicked" ELSE "returned"
           /\ seen' = IF out.panic THEN seen ELSE seen \cup DOMAIN t.storage
    /\ UNCHANGED <<log, origin>>

AbsorbNewlyCreated ==
    /\ pc = "idle"
    /\ \E new_info \in Infos, new_storage \in Storages :
          /\ ConsistentWith(Unwrap(mirror), [storage |-> new_storage])
          /\ Absorb(newly_created(Unwrap(mirror), new_info, new_storage))

AbsorbChange ==
    /\ pc = "idle"
    /\ \E new \in Infos, storage \in Storages :
          /\ ConsistentWith(Unwrap(mirror), [storage |-> storage])
          /\ Absorb(change(Unwrap(mirror), new, storage))

AbsorbSelfdestruct ==
    /\ pc = "idle"
    /\ Absorb(selfdestruct(Unwrap(mirror)))

NextPair == AbsorbNewlyCreated \/ AbsorbChange \/ AbsorbSelfdestruct \/ Resume

SpecPair == InitPair /\ [][NextPair]_vars

\* ------------------------------------------------------ applying a revert
\* Undoing a fold: the account is deleted when the revert carries no info and
\* otherwise gets the carried info back; every slot of the revert is set to
\* its Some(v) value or erased when it is Destroyed; the status becomes
\* original_status.
ApplyRevert(b, r) ==
    LET held == IF IsSome(b.account) THEN Unwrap(b.account).storage ELSE EmptyMap
        kept == {k \in (DOMAIN held) \cup (DOMAIN r.storage) :
                    k \in DOMAIN r.storage => r.storage[k].some}
        storage == [k \in kept |-> IF k \in DOMAIN r.storage THEN r.storage[k].value
                                   ELSE held[k]]
    IN  BundleAccount(IF IsSome(r.account)
                      THEN Some(PlainAccount(Unwrap(r.account), storage))
                      ELSE None,
                      r.original_status)

\* restored is the pre-fold account: same status, same presence and info, the
\* same value in every slot the pre-fold account held; a slot it did not hold
\* is either gone or back at the original value the transition recorded.
SameAsBefore(restored, pre, t) ==
    /\ restored.status = pre.status
    /\ IsSome(restored.account) = IsSome(pre.account)
    /\ IsSome(pre.account) =>
          /\ Unwrap(restored.account).info = Unwrap(pre.account).info
          /\ \A k \in StorageKeys(pre) : storage_slot(restored, k) = storage_slot(pre, k)
          /\ \A k \in StorageKeys(restored) \ StorageKeys(pre) :
                /\ k \in DOMAIN t.storage
                /\ storage_slot(restored, k) = Some(t.storage[k].original_value)

\* The fold table: the pairs <<self.status, t.status>> the fold accepts.
FoldTable ==
    ({"Loaded", "Changed"} \X {"Changed"})
    \cup ({"LoadedEmptyEIP161", "LoadedNotExisting"} \X {"New"})
    \cup ({"LoadedEmptyEIP161", "LoadedNotExisting", "New", "NewChanged"} \X {"NewChanged"})
    \cup ({"NewChanged", "New", "Changed", "LoadedEmptyEIP161", "Loaded", "LoadedNotExisting"}
          \X {"Destroyed"})
    \cup ({"NewChanged", "New", "Changed", "LoadedEmptyEIP161", "Destroyed",
           "LoadedNotExisting", "DestroyedAgain", "DestroyedNew"} \X {"DestroyedNew"})
    \cup ({"NewChanged", "New", "Changed", "LoadedEmptyEIP161", "Destroyed", "DestroyedNew",
           "DestroyedNewChanged", "LoadedNotExisting"} \X {"DestroyedNewChanged"})
    \cup ({"NewChanged", "New", "Changed", "LoadedEmptyEIP161", "Destroyed", "DestroyedAgain",
           "LoadedNotExisting", "DestroyedNew", "DestroyedNewChanged"} \X {"DestroyedAgain"})
    \cup (AccountStatus \X {"Loaded", "LoadedNotExisting", "LoadedEmptyEIP161"})

Folded == last.op = "update_and_create_revert"

\* ------------------------------------------------------------------ claims

\* C1: round-trip law.  For a fold of a pair listed in the fold table that
\* returns a revert r, applying r to the post-fold account gives back the
\* pre-fold account.
C1_RoundTrip ==
    (/\ Folded
     /\ <<last.pre.status, last.arg.status>> \in FoldTable
     /\ IsSome(last.ret))
    => SameAsBefore(ApplyRevert(bundle, Unwrap(last.ret)), last.pre, last.arg)

\* The account after the last n reverts of the log were applied, newest first.
RECURSIVE UndoLast(_, _, _)
UndoLast(b, entries, n) ==
    IF n = 0
    THEN b
    ELSE UndoLast(ApplyRevert(b, entries[Len(entries)].revert),
                  SubSeq(entries, 1, Len(entries) - 1), n - 1)

\* same status, same presence and info, and the same value in every slot the
\* target holds
SameAccount(restored, target) ==
    /\ restored.status = target.status
    /\ IsSome(restored.account) = IsSome(target.account)
    /\ IsSome(target.account) =>
          /\ Unwrap(restored.account).info = Unwrap(target.account).info
          /\ \A k \in StorageKeys(target) : storage_slot(restored, k) = storage_slot(target, k)

\* C2: sequence undo.  After any sequence of legal folds from a Loaded,
\* LoadedEmptyEIP161, LoadedNotExisting or New account, applying the last n
\* logged reverts in reverse order restores the account that was there before
\* the last n revert-producing folds, and applying all of them restores the
\* initial account.
C2_SequenceUndo ==
    (pc = "idle" /\ IsSome(origin) /\ log # <<>>) =>
        /\ \A n \in 1..Len(log) :
              SameAccount(UndoLast(bundle, log, n), log[Len(log) - n + 1].before)
        /\ SameAccount(UndoLast(bundle, log, Len(log)), Unwrap(origin))

\* C3: account-presence invariant.  self.account is None exactly when the
\* status is LoadedNotExisting, Destroyed or DestroyedAgain.
C3_AccountPresence ==
    pc # "panicked" =>
        (IsNone(bundle.account)
            <=> bundle.status \in {"LoadedNotExisting", "Destroyed", "DestroyedAgain"})

\* C4: idempotence of reload transitions.  Folding a transition whose status
\* is Loaded, LoadedNotExisting or LoadedEmptyEIP161 returns None and leaves
\* self.status and self.account as they were.
C4_ReloadIdempotent ==
    (Folded /\ last.arg.status \in {"Loaded", "LoadedNotExisting", "LoadedEmptyEIP161"})
    => (~last.panic /\ IsNone(last.ret) /\ bundle = last.pre)

\* C5: the fold returns None if and only if it is a no-op: None means self is
\* unchanged, a revert means self was changed.
C5_NoneIffNoOp ==
    (Folded /\ ~last.panic) => (IsNone(last.ret) <=> bundle = last.pre)

\* C6: the fold ends in unreachable!() for exactly the pairs
\* <<self.status, t.status>> the fold table does not list, and completes for
\* every listed pair.
C6_FatalExactlyOffTable ==
    Folded => (last.panic <=> <<last.pre.status, last.arg.status>> \notin FoldTable)

C6_Witness ==
    /\ Folded
    /\ last.panic
    /\ last.pre.status = "DestroyedNewChanged"
    /\ last.arg.status = "DestroyedNew"

\* C7: touch_empty takes DestroyedNew to DestroyedAgain, New to Destroyed and
\* LoadedEmptyEIP161 to Destroyed, leaving self.account None; in any other
\* status it fails fatally and the status is not changed.
C7_TouchEmpty ==
    last.op = "touch_empty" =>
        CASE last.pre.status = "DestroyedNew" ->
                ~last.panic /\ bundle = BundleAccount(None, "DestroyedAgain")
          [] last.pre.status \in {"New", "LoadedEmptyEIP161"} ->
                ~last.panic /\ bundle = BundleAccount(None, "Destroyed")
          [] OTHER -> last.panic /\ bundle.status = last.pre.status

C7_Witness ==
    /\ last.op = "touch_empty"
    /\ last.pre.status = "DestroyedNew"
    /\ IsSome(last.pre.account)
    /\ bundle = BundleAccount(None, "DestroyedAgain")

\* C8: selfdestruct leaves self.account None, sets the status to
\* DestroyedAgain when it was DestroyedNew, DestroyedNewChanged or Destroyed
\* and to Destroyed otherwise, and returns a TransitionAccount with no info,
\* empty storage, the new status, the previous status and the previous info.
C8_Selfdestruct ==
    last.op = "selfdestruct" =>
        LET expected == IF last.pre.status \in {"DestroyedNew", "DestroyedNewChanged",
                                                "Destroyed"}
                        THEN "DestroyedAgain"
                        ELSE "Destroyed"
        IN  /\ ~last.panic
            /\ bundle = BundleAccount(None, expected)
            /\ last.ret.info = None
            /\ last.ret.storage = EmptyMap
            /\ last.ret.status = bundle.status
            /\ last.ret.previous_status = last.pre.status
            /\ last.ret.previous_info = account_info(last.pre)

C8_Witness ==
    /\ last.op = "selfdestruct"
    /\ last.pre.status = "DestroyedNewChanged"
    /\ IsSome(last.ret.previous_info)
    /\ bundle = BundleAccount(None, "DestroyedAgain")

\* Folding t1 and then t2 into b: the end state, the reverts emitted in
\* order, and whether one of the two folds was fatal.
FoldTwo(b, t1, t2) ==
    LET o1 == update_and_create_revert(b, t1)
        o2 == update_and_create_revert(BundleAccount(o1.account, o1.status), t2)
    IN  IF o1.panic
        THEN [panic |-> TRUE, bundle |-> BundleAccount(o1.account, o1.status),
              reverts |-> <<>>]
        ELSE [panic |-> o2.panic, bundle |-> BundleAccount(o2.account, o2.status),
              reverts |-> <<o1.ret, o2.ret>>]

\* C9: the fold is not commutative.  After a recreation t1 (DestroyedNew)
\* was folded into a destroyed account, every destruction t2 (DestroyedAgain)
\* can be folded next, t2 followed by t1 is legal from the same start as
\* well, and the two orders end in different accounts and emit different
\* reverts.  After t1 = New was folded into a non-existing account, every
\* t2 = NewChanged can be folded next, while t2 followed by t1 is fatal.
C9_NotCommutative ==
    /\ (/\ Folded
        /\ ~last.panic
        /\ last.pre.status = "Destroyed"
        /\ last.arg.status = "DestroyedNew") =>
          \A t2 \in Transitions :
              t2.status = "DestroyedAgain" =>
                  LET next == update_and_create_revert(bundle, t2)
                      other == FoldTwo(last.pre, t2, last.arg)
                  IN  /\ ~next.panic
                      /\ ~other.panic
                      /\ BundleAccount(next.account, next.status) # other.bundle
                      /\ <<last.ret, next.ret>> # other.reverts
    /\ (/\ Folded
        /\ ~last.panic
        /\ last.pre.status = "LoadedNotExisting"
        /\ last.arg.status = "New") =>
          \A t2 \in Transitions :
              t2.status = "NewChanged" =>
                  /\ ~update_and_create_revert(bundle, t2).panic
                  /\ FoldTwo(last.pre, t2, last.arg).panic

C9_Witness ==
    /\ Folded
    /\ last.pre = new_destroyed
    /\ last.arg.status = "DestroyedNew"
    /\ bundle.status = "DestroyedNew"
    /\ \E t2 \in Transitions :
          /\ t2.status = "DestroyedAgain"
          /\ ~update_and_create_revert(bundle, t2).panic
          /\ ~FoldTwo(last.pre, t2, last.arg).panic
          /\ FoldTwo(last.pre, last.arg, t2).bundle # FoldTwo(last.pre, t2, last.arg).bundle

\* C10 as stated: whenever the account is present, the keys of
\* account.storage are exactly the slots observed so far (the initial keys and
\* the keys of every storage folded in).
C10_StorageKeysAreUnion ==
    (pc # "panicked" /\ IsSome(bundle.account)) => StorageKeys(bundle) = seen

\* C10 as amended: whenever the account is present, the keys of
\* account.storage are among the slots observed so far, and right after a
\* fold they include every key of the folded transition's storage.
C10_StorageKeysWithinUnion ==
    (pc # "panicked" /\ IsSome(bundle.account)) =>
        /\ StorageKeys(bundle) \subseteq seen
        /\ Folded => DOMAIN last.arg.storage \subseteq StorageKeys(bundle)

C10_Witness ==
    /\ Folded
    /\ ~last.panic
    /\ last.arg.status = "DestroyedNew"
    /\ IsSome(bundle.account)
    /\ DOMAIN last.arg.storage # {}
    /\ StorageKeys(bundle) = DOMAIN last.arg.storage
    /\ StorageKeys(bundle) # seen

\* ------------------------------------------------- the cells of the fold
\* a fold of a transition with status ts onto an account whose status is in S
FoldedOnto(S, ts) == Folded /\ last.pre.status \in S /\ last.arg.status = ts

\* the storage self.account held, empty when there was no account
HeldStorage(b) == IF IsSome(b.account) THEN Unwrap(b.account).storage ELSE EmptyMap

\* the pre-fold storage overlaid with the present values of the transition
Overlaid(b, t) == Extend(HeldStorage(b), new_present_storage(t.storage))

\* C11: status LoadedEmptyEIP161 implies that the account is present and its
\* info is the empty (default) AccountInfo.
C11_EmptyStatusEmptyInfo ==
    (pc # "panicked" /\ bundle.status = "LoadedEmptyEIP161") =>
        account_info(bundle) = Some(AccountInfoDefault)

\* C12: Changed folded onto Changed leaves status Changed and the account
\* present with info t.info and the pre-fold storage overlaid with t's present
\* values; the revert carries the pre-fold info, previous_storage_from_update
\* and original_status Changed.
C12_ChangedOntoChanged ==
    FoldedOnto({"Changed"}, "Changed") =>
        /\ ~last.panic
        /\ bundle = BundleAccount(Some(PlainAccount(UnwrapOrDefaultInfo(last.arg.info),
                                                   Overlaid(last.pre, last.arg))),
                                  "Changed")
        /\ last.ret = Some(AccountRevert(account_info(last.pre),
                                         previous_storage_from_update(last.arg.storage),
                                         "Changed"))

\* C13: Changed folded onto Loaded sets status Changed, info t.info and the
\* pre-fold storage overlaid with t's present values; the revert restores the
\* pre-fold info, its slots are exactly the original values of the slots with
\* original_value # present_value, and its original_status is Loaded.
C13_ChangedOntoLoaded ==
    FoldedOnto({"Loaded"}, "Changed") =>
        /\ ~last.panic
        /\ bundle = BundleAccount(Some(PlainAccount(UnwrapOrDefaultInfo(last.arg.info),
                                                   Overlaid(last.pre, last.arg))),
                                  "Changed")
        /\ last.ret = Some(AccountRevert(
                account_info(last.pre),
                [k \in {j \in DOMAIN last.arg.storage :
                            last.arg.storage[j].original_value
                                # last.arg.storage[j].present_value} |->
                    RevertToSlotSome(last.arg.storage[k].original_value)],
                "Loaded"))

\* C14: New folded onto LoadedEmptyEIP161 gives status New, info t.info and
\* the pre-existing storage united with t's present values, with the revert
\* {RevertTo(default), previous_storage_from_update, LoadedEmptyEIP161}; onto
\* LoadedNotExisting it gives status New with exactly t's present values,
\* with the revert {DeleteIt, previous_storage_from_update, LoadedNotExisting}.
C14_New ==
    /\ FoldedOnto({"LoadedEmptyEIP161"}, "New") =>
          /\ ~last.panic
          /\ bundle = BundleAccount(Some(PlainAccount(UnwrapOrDefaultInfo(last.arg.info),
                                                     Overlaid(last.pre, last.arg))),
                                    "New")
          /\ last.ret = Some(AccountRevert(Some(AccountInfoDefault),
                                           previous_storage_from_update(last.arg.storage),
                                           "LoadedEmptyEIP161"))
    /\ FoldedOnto({"LoadedNotExisting"}, "New") =>
          /\ ~last.panic
          /\ bundle = BundleAccount(Some(PlainAccount(UnwrapOrDefaultInfo(last.arg.info),
                                                     PresentValues(last.arg.storage))),
                                    "New")
          /\ last.ret = Some(AccountRevert(None,
                                           previous_storage_from_update(last.arg.storage),
                                           "LoadedNotExisting"))

C14_Witness ==
    /\ FoldedOnto({"LoadedEmptyEIP161"}, "New")
    /\ HeldStorage(last.pre) # EmptyMap
    /\ DOMAIN last.arg.storage \ DOMAIN HeldStorage(last.pre) # {}
    /\ bundle.status = "New"
    /\ DOMAIN HeldStorage(bundle) = DOMAIN HeldStorage(last.pre) \cup DOMAIN last.arg.storage

\* The revert's account part in the terms of AccountInfoRevert: DeleteIt is
\* None, RevertTo(info) is Some(info); DoNothing is neither of the two.
IsDoNothing(account) == account # None /\ \A i \in Infos : account # Some(i)

\* the statuses and the slots of the revert that C15 states
C15_StatusAndSlots ==
    /\ FoldedOnto({"LoadedEmptyEIP161", "LoadedNotExisting"}, "NewChanged") =>
          ~last.panic /\ bundle.status = "New"
    /\ FoldedOnto({"New", "NewChanged"}, "NewChanged") =>
          /\ ~last.panic
          /\ bundle.status = "NewChanged"
          /\ IsSome(last.ret)
          /\ Unwrap(last.ret).storage = previous_storage_from_update(last.arg.storage)
          /\ Unwrap(last.ret).original_status = last.pre.status

\* C15 as stated: NewChanged folded onto LoadedEmptyEIP161 or
\* LoadedNotExisting gives status New, onto New or NewChanged it gives
\* NewChanged; in the New and NewChanged cases the revert's account part is
\* RevertTo(default) when the info differs and DoNothing otherwise, its slots
\* are previous_storage_from_update and its original_status is the pre-fold
\* status.
C15_NewChangedAsStated ==
    /\ C15_StatusAndSlots
    /\ FoldedOnto({"New", "NewChanged"}, "NewChanged") =>
          IF account_info(last.pre) # Some(UnwrapOrDefaultInfo(last.arg.info))
          THEN Unwrap(last.ret).account = Some(AccountInfoDefault)
          ELSE IsDoNothing(Unwrap(last.ret).account)

\* C15 as amended: the same statuses, slots and original_status; in the New
\* and NewChanged cases the revert's account part is always RevertTo(the info
\* taken out of self: the pre-fold info, or the default info when self.account
\* was None), whether or not the info differs.
C15_NewChanged ==
    /\ C15_StatusAndSlots
    /\ FoldedOnto({"New", "NewChanged"}, "NewChanged") =>
          Unwrap(last.ret).account = Some(UnwrapOrDefaultAccount(last.pre.account).info)

C15_Witness ==
    /\ FoldedOnto({"New"}, "NewChanged")
    /\ bundle.status = "NewChanged"
    /\ IsSome(last.pre.account)
    /\ Unwrap(last.pre.account).info # AccountInfoDefault
    /\ Unwrap(last.pre.account).info # UnwrapOrDefaultInfo(last.arg.info)
    /\ Unwrap(last.ret).account = account_info(last.pre)

\* the statuses from which a destruction is folded through the common
\* pre-destroy path
PreDestroy == {"NewChanged", "New", "Changed", "LoadedEmptyEIP161"}

\* every slot the account held, as RevertToSlot::Some(its value)
HeldSlots(b) == [k \in DOMAIN HeldStorage(b) |-> RevertToSlotSome(HeldStorage(b)[k])]

\* the account the fold builds from the transition alone
Rebuilt(t) ==
    Some(PlainAccount(UnwrapOrDefaultInfo(t.info), PresentValues(t.storage)))

\* C16: Destroyed folded onto NewChanged, New, Changed, LoadedEmptyEIP161 or
\* Loaded sets status Destroyed and account None; the revert maps every slot
\* the account held to Some(its pre-fold value), its account part is
\* RevertTo(pre-destruct info) and its original_status is the pre-destruct
\* status, except that the Loaded case records LoadedEmptyEIP161.
C16_Destroyed ==
    FoldedOnto(PreDestroy \cup {"Loaded"}, "Destroyed") =>
        /\ ~last.panic
        /\ bundle = BundleAccount(None, "Destroyed")
        /\ last.ret = Some(AccountRevert(account_info(last.pre),
                                         HeldSlots(last.pre),
                                         IF last.pre.status = "Loaded"
                                         THEN "LoadedEmptyEIP161"
                                         ELSE last.pre.status))

\* C17: DestroyedNew folded onto NewChanged, New, Changed or LoadedEmptyEIP161
\* sets self to DestroyedNew with info t.info and exactly t's present values;
\* the revert restores the prior info, holds every slot the account held as
\* Some(its pre-fold value) plus Destroyed for every key of t.storage the
\* account did not hold, and records the prior status.
C17_PreDestroyDestroyedNew ==
    FoldedOnto(PreDestroy, "DestroyedNew") =>
        /\ ~last.panic
        /\ bundle = BundleAccount(Rebuilt(last.arg), "DestroyedNew")
        /\ last.ret = Some(AccountRevert(
                account_info(last.pre),
                [k \in DOMAIN HeldStorage(last.pre) \cup DOMAIN last.arg.storage |->
                    IF k \in DOMAIN HeldStorage(last.pre)
                    THEN RevertToSlotSome(HeldStorage(last.pre)[k])
                    ELSE RevertToSlotDestroyed],
                last.pre.status))

\* C18: DestroyedNew folded onto Destroyed gives DestroyedNew with (t.info,
\* t's present values) and the revert {DeleteIt, previous_storage_from_update,
\* Destroyed}; onto LoadedNotExisting it collapses to New with the revert
\* {DeleteIt, previous_storage_from_update, LoadedNotExisting}; onto
\* DestroyedAgain it gives DestroyedNew and the revert restores the empty
\* account, with Destroyed for every key of t.storage and original_status
\* DestroyedAgain.
C18_DestroyedNew ==
    /\ FoldedOnto({"Destroyed"}, "DestroyedNew") =>
          /\ ~last.panic
          /\ bundle = BundleAccount(Rebuilt(last.arg), "DestroyedNew")
          /\ last.ret = Some(AccountRevert(None,
                                           previous_storage_from_update(last.arg.storage),
                                           "Destroyed"))
    /\ FoldedOnto({"LoadedNotExisting"}, "DestroyedNew") =>
          /\ ~last.panic
          /\ bundle = BundleAccount(Rebuilt(last.arg), "New")
          /\ last.ret = Some(AccountRevert(None,
                                           previous_storage_from_update(last.arg.storage),
                                           "LoadedNotExisting"))
    /\ FoldedOnto({"DestroyedAgain"}, "DestroyedNew") =>
          /\ ~last.panic
          /\ bundle = BundleAccount(Rebuilt(last.arg), "DestroyedNew")
          /\ last.ret = Some(AccountRevert(
                Some(AccountInfoDefault),
                [k \in DOMAIN last.arg.storage |-> RevertToSlotDestroyed],
                "DestroyedAgain"))

C18_Witness ==
    /\ FoldedOnto({"LoadedNotExisting"}, "DestroyedNew")
    /\ bundle.status = "New"
    /\ DOMAIN last.arg.storage # {}
    /\ account_info(bundle) # Some(AccountInfoDefault)
    /\ Unwrap(last.ret).account = None

\* what C19 states about the post-fold self, the slots and the original_status
\* of the revert, and about the reverts from Destroyed and LoadedNotExisting
C19_SelfAndSlots ==
    /\ FoldedOnto({"Destroyed", "DestroyedNew", "DestroyedNewChanged"},
                  "DestroyedNewChanged") =>
          ~last.panic /\ bundle = BundleAccount(Rebuilt(last.arg), "DestroyedNew")
    /\ FoldedOnto({"LoadedNotExisting"}, "DestroyedNewChanged") =>
          ~last.panic /\ bundle = BundleAccount(Rebuilt(last.arg), "New")
    /\ FoldedOnto({"Destroyed", "DestroyedNew", "DestroyedNewChanged", "LoadedNotExisting"},
                  "DestroyedNewChanged") =>
          /\ IsSome(last.ret)
          /\ Unwrap(last.ret).storage = previous_storage_from_update(last.arg.storage)
          /\ Unwrap(last.ret).original_status = "DestroyedNewChanged"
    /\ FoldedOnto({"Destroyed", "LoadedNotExisting"}, "DestroyedNewChanged") =>
          Unwrap(last.ret).account = None

AsDestroyedNew ==
    update_and_create_revert(last.pre, [last.arg EXCEPT !.status = "DestroyedNew"])

\* C20 as stated: on the pre-destroy path (NewChanged, New, Changed,
\* LoadedEmptyEIP161) folding DestroyedNewChanged gives the same post-fold
\* self (status and account) and the same revert as folding the same info and
\* storage with status DestroyedNew.
C20_SameAsDestroyedNewAsStated ==
    FoldedOnto(PreDestroy, "DestroyedNewChanged") =>
        /\ ~last.panic /\ ~AsDestroyedNew.panic
        /\ bundle = BundleAccount(AsDestroyedNew.account, AsDestroyedNew.status)
        /\ last.ret = AsDestroyedNew.ret

\* C20 as amended: on the pre-destroy path folding DestroyedNewChanged gives
\* the same account and the same revert as folding the same info and storage
\* with status DestroyedNew; the post-fold status is DestroyedNewChanged
\* where the DestroyedNew fold gives DestroyedNew.
C20_SameAsDestroyedNew ==
    FoldedOnto(PreDestroy, "DestroyedNewChanged") =>
        /\ ~last.panic /\ ~AsDestroyedNew.panic
        /\ bundle.account = AsDestroyedNew.account
        /\ last.ret = AsDestroyedNew.ret
        /\ bundle.status = "DestroyedNewChanged"
        /\ AsDestroyedNew.status = "DestroyedNew"

C20_Witness ==
    /\ FoldedOnto({"Changed"}, "DestroyedNewChanged")
    /\ IsSome(last.pre.account)
    /\ DOMAIN last.arg.storage # {}
    /\ bundle.status = "DestroyedNewChanged"
    /\ IsSome(last.ret)
    /\ last.ret = AsDestroyedNew.ret

\* C21: DestroyedAgain folded onto NewChanged, New, Changed or
\* LoadedEmptyEIP161 returns a revert that restores the prior info, lists
\* every slot the account held before the fold as Some(its value) with no
\* Destroyed entry, and records the prior status; onto DestroyedNew and
\* DestroyedNewChanged the revert is {RevertTo(prior info),
\* previous_storage_from_update, the prior status}.
C21_DestroyedAgain ==
    /\ FoldedOnto(PreDestroy, "DestroyedAgain") =>
          /\ ~last.panic
          /\ last.ret = Some(AccountRevert(account_info(last.pre),
                                           HeldSlots(last.pre),
                                           last.pre.status))
    /\ FoldedOnto({"DestroyedNew", "DestroyedNewChanged"}, "DestroyedAgain") =>
          /\ ~last.panic
          /\ last.ret = Some(AccountRevert(account_info(last.pre),
                                           previous_storage_from_update(last.arg.storage),
                                           last.pre.status))

\* the fold cells in which C22 expects the info-revert mode to follow info
\* equality, as pairs <<self.status, t.status>>
InfoCells ==
    {<<"Loaded", "Changed">>, <<"Changed", "Changed">>,
     <<"LoadedEmptyEIP161", "NewChanged">>, <<"New", "NewChanged">>,
     <<"NewChanged", "NewChanged">>, <<"DestroyedNewChanged", "DestroyedNewChanged">>}

FoldedInInfoCell == Folded /\ <<last.pre.status, last.arg.status>> \in InfoCells

\* the folded info equals the info the bundle held before the fold
SameInfo == account_info(last.pre) = Some(UnwrapOrDefaultInfo(last.arg.info))

\* C22 as stated: in the cells Changed-from-Loaded, Changed-from-Changed,
\* NewChanged-from-LoadedEmptyEIP161, NewChanged-from-New,
\* NewChanged-from-NewChanged and DestroyedNewChanged-from-DestroyedNewChanged
\* the revert's account part is DoNothing exactly when t.info equals the info
\* held before the fold, and RevertTo(...) exactly when they differ.
C22_InfoRevertModeAsStated ==
    FoldedInInfoCell =>
        /\ ~last.panic
        /\ IsSome(last.ret)
        /\ IsDoNothing(Unwrap(last.ret).account) <=> SameInfo
        /\ IsSome(Unwrap(last.ret).account) <=> ~SameInfo

\* C22 as amended: in the same six cells the revert's account part is
\* RevertTo(...) whether or not t.info equals the info held before the fold;
\* DoNothing and DeleteIt are never produced there.
C22_InfoRevertMode ==
    FoldedInInfoCell =>
        /\ ~last.panic
        /\ IsSome(last.ret)
        /\ IsSome(Unwrap(last.ret).account)

C22_Witness ==
    /\ FoldedOnto({"NewChanged"}, "NewChanged")
    /\ IsSome(last.pre.account)
    /\ SameInfo
    /\ Unwrap(last.pre.account).info # AccountInfoDefault
    /\ Unwrap(last.ret).account = account_info(last.pre)

\* C23: every fold of a pair of the fold table that returns a revert records
\* in revert.original_status the status self had immediately before the fold.
C23_OriginalStatus ==
    (/\ Folded
     /\ <<last.pre.status, last.arg.status>> \in FoldTable
     /\ ~last.panic
     /\ IsSome(last.ret))
    => Unwrap(last.ret).original_status = last.pre.status

\* C24: whenever a fold of a DestroyedAgain transition returns a revert (from
\* NewChanged, New, Changed, LoadedEmptyEIP161, DestroyedNew or
\* DestroyedNewChanged), self ends with status DestroyedAgain and account None.
C24_DestroyedAgainPost ==
    FoldedOnto(PreDestroy \cup {"DestroyedNew", "DestroyedNewChanged"}, "DestroyedAgain") =>
        /\ ~last.panic
        /\ IsSome(last.ret)
        /\ bundle = BundleAccount(None, "DestroyedAgain")

\* C25: when two accounts start equal and every TransitionAccount returned by
\* newly_created, change or selfdestruct on the one is folded into the other
\* in the same order, no fold ends in unreachable!().
C25_HelpersAbsorbable == Folded => ~last.panic

\* the statuses of an account that has been destroyed at least once
DestroyedFamily == {"Destroyed", "DestroyedNew", "DestroyedNewChanged", "DestroyedAgain"}

\* the statuses the constructors give to an account loaded from the database
LoadedFamily == {"Loaded", "LoadedNotExisting", "LoadedEmptyEIP161"}

\* C26: Destroyed-family closure.  Once self.status is Destroyed,
\* DestroyedNew, DestroyedNewChanged or DestroyedAgain, no operation that
\* returns (update_and_create_revert, touch_empty, selfdestruct,
\* newly_created, change) moves it out of that set; and no operation sets the
\* status to Loaded, LoadedNotExisting or LoadedEmptyEIP161.
C26_DestroyedClosure ==
    [][/\ (bundle.status \in DestroyedFamily /\ pc' # "panicked")
            => bundle'.status \in DestroyedFamily
       /\ bundle'.status \in LoadedFamily => bundle'.status = bundle.status]_vars

C26_Witness ==
    /\ last.op = "selfdestruct"
    /\ ~last.panic
    /\ last.pre.status = "DestroyedNewChanged"
    /\ IsSome(last.pre.account)
    /\ bundle = BundleAccount(None, "DestroyedAgain")

\* C27: DestroyedNewChanged folded onto an account in status DestroyedNew or
\* DestroyedNewChanged keeps every slot the account held before the fold
\* whose key is not in t.storage: storage_slot(k) is the same before and
\* after the fold.
C27_KeepsOtherSlots ==
    FoldedOnto({"DestroyedNew", "DestroyedNewChanged"}, "DestroyedNewChanged") =>
        /\ ~last.panic
        /\ \A k \in DOMAIN HeldStorage(last.pre) \ DOMAIN last.arg.storage :
              storage_slot(bundle, k) = storage_slot(last.pre, k)

====
